---- MODULE Spec2Model ----
(***************************************************************************)
(* A model of the CRUSH placement engine of src/src/crush/crush.rs: the    *)
(* cluster map (struct Crush / struct Node), its mutators add_weight and   *)
(* set_inout, the queries get_weight, get_inout, total_weight,             *)
(* get_recommended_pgs, and the selection algorithm select / locate /      *)
(* locate_all built on Node::choose.                                       *)
(*                                                                         *)
(* Strings are sequences of tokens: a token is either the separator "/"    *)
(* or a non-empty name that holds no "/".  The empty string is <<>>.  A    *)
(* node of the tree is identified by the sequence of the names of the      *)
(* children[] lookups that lead to it from Crush.root (<<>> is the root);  *)
(* a name may be the empty name "", which split_once yields for a path     *)
(* such as "/x".                                                           *)
(*                                                                         *)
(* Machine words are scaled down so that their overflow is reachable: a    *)
(* u64 / i64 weight is WeightBits wide, the u32 draw index IndexBits wide, *)
(* and the u32 of get_recommended_pgs PgBits wide.  Arithmetic that        *)
(* overflows either panics (a build with overflow checks) or wraps (a      *)
(* build without), so both outcomes are successors of the step.            *)
(***************************************************************************)
EXTENDS Integers, Sequences, FiniteSets, TLC

\* ------------------------------------------------------------------ bounds
\* Number of mutating calls (add_weight, set_inout) in one behaviour.
MaxMut == 3
\* Largest num / replicas passed to select and locate_all.
MaxNum == 2
\* Width of the weight word (u64 and i64 in the source).
WeightBits == 3
\* Width of the draw index and of failure_count (u32 in the source).
IndexBits == 3
\* Width of the word of get_osds / get_recommended_pgs (u32 in the source).
PgBits == 10

\* ------------------------------------------------------------------ inputs
Slash == "/"
\* Names used as path components; OsdNames are those that contain "osd".
Names == {"host.1", "host.2", "osd.1"}
OsdNames == {"osd.1"}
\* The path strings handed to the operations.
PathInputs ==
  { <<>>, <<"host.1">>, <<"osd.1">>, <<"host.1", "/", "osd.1">>,
    <<"host.2", "/", "osd.1">>, <<"host.1", "/">> }
\* The start paths handed to select.
StartInputs == {<<>>, <<"host.1">>, <<"host.1", "/">>}
\* The i64 deltas handed to add_weight.
Deltas == {-1, 2}
\* The placement group ids handed to the queries.
Pgids == {1, 2}
\* The replica counts handed to get_recommended_pgs.
ReplicaInputs == {0, 1, 3, 25, 100, 101}

VARIABLES
  root,   \* Crush.root: node -> [weight, out]; DOMAIN root is the set of nodes
  own,    \* history: node -> sum of the deltas of the add_weight calls addressed to it
  nMut,   \* history: number of mutating calls made
  pc,     \* "ready" | "select" (inside the draw loop of select) | "done" (a query
          \* has returned ret to its caller) | "panicked" | "call" (a call of a
          \* function on its own is about to be made with the argument in ret)
  sel,    \* the locals of the running select call
  loc,    \* the locals of the running locate / locate_all call around it
  ret     \* the query that returned last and its value (again: it was a run
          \* made after a run that returned); while a query runs again, what
          \* the previous run returned

vars == <<root, own, nMut, pc, sel, loc, ret>>

\* ------------------------------------------------------------------ words
Pow2(n) == 2 ^ n
WeightMod == Pow2(WeightBits)
IndexMod == Pow2(IndexBits)
PgMod == Pow2(PgBits)

\* `x as i64` of a weight word: the two's complement reading.
AsSigned(x) == IF x >= WeightMod \div 2 THEN x - WeightMod ELSE x
\* A conversion to u64 that saturates at zero.
AsUnsigned_Saturating(x) == IF x < 0 THEN 0 ELSE x % WeightMod
\* `x as u64` of a signed value.
AsUnsigned(x) == x % WeightMod
\* i64 addition overflows.
SignedOverflow(x) == x < -(WeightMod \div 2) \/ x > (WeightMod \div 2) - 1

\* ------------------------------------------------------------------ hash
\* DefaultHasher::new() is SipHash-1-3 with the fixed key (0, 0).  HashRows holds,
\* for each name and key, the values of (hash & 65535) for index 0, 1, 2, ...
\* where the hash is taken over name, key, index in that order.
HashRows ==
<<"", 1>> :> <<19671, 38123, 24460, 57239, 26901, 27737, 9246, 16869, 35375, 23993, 6885, 65042, 61972, 664, 28420, 21705>> @@
  <<"", 2>> :> <<39680, 21912, 46478, 53096, 11098, 21167, 15926, 59171, 60265, 52680, 50636, 53033, 65074, 34322, 54285, 55922>> @@
  <<"host.1", 1>> :> <<13508, 52233, 10438, 8378, 42521, 5535, 17379, 50451, 14900, 40534, 56444, 10955, 21663, 53151, 59176, 50751>> @@
  <<"host.1", 2>> :> <<55854, 22593, 35227, 30172, 31587, 33422, 55540, 43793, 30972, 39325, 18479, 50047, 47896, 21932, 36998, 16659>> @@
  <<"host.2", 1>> :> <<8664, 738, 54793, 50611, 48856, 47700, 14600, 14710, 49129, 44424, 174, 13271, 42348, 52051, 35171, 25524>> @@
  <<"host.2", 2>> :> <<14769, 42824, 6324, 50757, 32508, 39285, 9163, 5423, 14683, 41120, 20323, 60619, 26899, 56745, 2065, 42184>> @@
  <<"osd.1", 1>> :> <<46414, 58961, 63089, 3497, 36593, 1757, 8000, 46505, 15163, 33953, 56408, 53345, 20873, 32018, 15730, 51321>> @@
  <<"osd.1", 2>> :> <<31234, 36234, 49510, 9463, 62192, 45617, 39442, 44619, 7772, 40953, 17858, 7023, 20003, 25263, 47444, 367>>

\* A hasher whose key changes from one run of a query to the next.
Hash_RandomSeed(name, key, index) ==
  HashRows[<<name, key>>][((index + (IF ret.status = "ok" THEN 1 ELSE 0)) % IndexMod) + 1]

\* hasher.finish() & 65535 for (name, key, index).
Hash(name, key, index) == HashRows[<<name, key>>][index + 1]

\* LN_TABLE[h] = round(-ln(h / 65536) * 2^k) at the hash values HashRows holds;
\* k is 24 here and 44 in the source, so that the entries fit 32-bit integers.
LN_TABLE ==
  174 :> 99510694 @@ 367 :> 86989748 @@ 664 :> 77042196 @@ 738 :> 75269487 @@
  1757 :> 60716607 @@ 2065 :> 58006711 @@ 3497 :> 49168889 @@ 5423 :> 41807991 @@
  5535 :> 41465024 @@ 6324 :> 39229287 @@ 6885 :> 37803337 @@ 7023 :> 37470387 @@
  7772 :> 35770234 @@ 8000 :> 35285137 @@ 8378 :> 34510572 @@ 8664 :> 33947406 @@
  9163 :> 33007931 @@ 9246 :> 32856644 @@ 9463 :> 32467439 @@ 10438 :> 30822206 @@
  10955 :> 30011145 @@ 11098 :> 29793562 @@ 13271 :> 26793523 @@ 13508 :> 26496551 @@
  14600 :> 25192300 @@ 14683 :> 25097193 @@ 14710 :> 25066370 @@ 14769 :> 24999213 @@
  14900 :> 24851057 @@ 15163 :> 24557505 @@ 15730 :> 23941589 @@ 15926 :> 23733832 @@
  16659 :> 22978897 @@ 16869 :> 22768729 @@ 17379 :> 22269020 @@ 17858 :> 21812864 @@
  18479 :> 21239363 @@ 19671 :> 20190610 @@ 20003 :> 19909813 @@ 20323 :> 19643542 @@
  20873 :> 19195537 @@ 21167 :> 18960875 @@ 21663 :> 18572275 @@ 21705 :> 18539779 @@
  21912 :> 18380534 @@ 21932 :> 18365227 @@ 22593 :> 17867055 @@ 23993 :> 16858376 @@
  24460 :> 16534961 @@ 25263 :> 15993028 @@ 25524 :> 15820586 @@ 26899 :> 14940287 @@
  26901 :> 14939040 @@ 27737 :> 14425593 @@ 28420 :> 14017473 @@ 30172 :> 13013839 @@
  30972 :> 12574792 @@ 31234 :> 12433467 @@ 31587 :> 12244918 @@ 32018 :> 12017543 @@
  32508 :> 11762731 @@ 33422 :> 11297530 @@ 33953 :> 11033073 @@ 34322 :> 10851722 @@
  35171 :> 10441766 @@ 35227 :> 10415074 @@ 35375 :> 10344735 @@ 36234 :> 9942207 @@
  36593 :> 9776799 @@ 36998 :> 9592134 @@ 38123 :> 9089591 @@ 39285 :> 8585855 @@
  39325 :> 8568781 @@ 39442 :> 8518940 @@ 39680 :> 8418007 @@ 40534 :> 8060756 @@
  40953 :> 7888220 @@ 41120 :> 7819944 @@ 42184 :> 7391347 @@ 42348 :> 7326248 @@
  42521 :> 7257849 @@ 42824 :> 7138721 @@ 43793 :> 6763326 @@ 44424 :> 6523313 @@
  44619 :> 6449830 @@ 45617 :> 6078707 @@ 46414 :> 5788114 @@ 46478 :> 5764996 @@
  46505 :> 5755252 @@ 47444 :> 5419872 @@ 47700 :> 5329588 @@ 47896 :> 5260792 @@
  48856 :> 4927844 @@ 49129 :> 4834357 @@ 49510 :> 4704750 @@ 50047 :> 4523759 @@
  50451 :> 4388870 @@ 50611 :> 4335747 @@ 50636 :> 4327462 @@ 50751 :> 4289402 @@
  50757 :> 4287419 @@ 51321 :> 4102022 @@ 52051 :> 3865061 @@ 52233 :> 3806501 @@
  52680 :> 3663536 @@ 53033 :> 3551489 @@ 53096 :> 3531571 @@ 53151 :> 3514201 @@
  53345 :> 3453076 @@ 54285 :> 3160017 @@ 54793 :> 3003745 @@ 55540 :> 2776564 @@
  55854 :> 2681980 @@ 55922 :> 2661567 @@ 56408 :> 2516391 @@ 56444 :> 2505688 @@
  56745 :> 2416457 @@ 57239 :> 2271033 @@ 58961 :> 1773744 @@ 59171 :> 1714095 @@
  59176 :> 1712678 @@ 60265 :> 1406738 @@ 60619 :> 1308476 @@ 61972 :> 938131 @@
  62192 :> 878677 @@ 63089 :> 638426 @@ 65042 :> 126943 @@ 65074 :> 118691

\* ---------------------------------------------------------------- strings
\* String order (byte-wise `Ord` of str) on the tokens and on the names.
TokenOrder == <<"/", "host.1", "host.2", "osd.1">>
NameOrder == <<"", "host.1", "host.2", "osd.1">>
RankIn(order, x) == CHOOSE i \in 1..Len(order) : order[i] = x

\* a < b for two strings.
RECURSIVE StrLess(_, _)
StrLess(a, b) ==
  IF b = <<>> THEN FALSE
  ELSE IF a = <<>> THEN TRUE
  ELSE IF a[1] = b[1] THEN StrLess(Tail(a), Tail(b))
  ELSE RankIn(TokenOrder, a[1]) < RankIn(TokenOrder, b[1])

\* Vec<String>::sort().
RECURSIVE SortStrings(_)
SortStrings(v) ==
  IF v = <<>> THEN <<>>
  ELSE LET m == CHOOSE i \in 1..Len(v) :
                  /\ \A j \in 1..Len(v) : ~StrLess(v[j], v[i])
                  /\ \A j \in 1..(i - 1) : v[j] # v[i]
       IN <<v[m]>> \o SortStrings([k \in 1..(Len(v) - 1) |-> IF k < m THEN v[k] ELSE v[k + 1]])

\* The string of a name: the empty name is the empty string.
NameStr(name) == IF name = "" THEN <<>> ELSE <<name>>

\* s.contains("osd").
ContainsOsd(s) == \E i \in 1..Len(s) : s[i] \in OsdNames

\* path.split_once('/').unwrap_or((path, "")): the name and the suffix.
FirstSlash(s) ==
  IF \E i \in 1..Len(s) : s[i] = Slash
  THEN CHOOSE i \in 1..Len(s) : s[i] = Slash /\ \A j \in 1..(i - 1) : s[j] # Slash
  ELSE 0
SplitName(s) ==
  LET i == FirstSlash(s)
      head == IF i = 0 THEN s ELSE SubSeq(s, 1, i - 1)
  IN IF head = <<>> THEN "" ELSE head[1]
SplitSuffix(s) ==
  LET i == FirstSlash(s) IN IF i = 0 THEN <<>> ELSE SubSeq(s, i + 1, Len(s))

\* The names a path is split into by add_weight / get / get_mut, in order:
\* the recursion stops at the empty path.
RECURSIVE Components(_)
Components(s) ==
  IF s = <<>> THEN <<>> ELSE <<SplitName(s)>> \o Components(SplitSuffix(s))

\* ------------------------------------------------------------------- tree
Root == <<>>
\* Node::default().
DefaultNode == [weight |-> 0, out |-> FALSE]

Prefix(n, k) == SubSeq(n, 1, k)
IsPrefix(p, n) == Len(p) <= Len(n) /\ Prefix(n, Len(p)) = p
\* The keys of node.children, and the child reached by children[name].
ChildNames(tree, node) ==
  {n[Len(n)] : n \in {m \in DOMAIN tree : Len(m) = Len(node) + 1 /\ IsPrefix(node, m)}}
Child(node, name) == Append(node, name)

\* Node::get / Node::get_mut from the root: the node, or a panic on a missing child.
Exists(tree, path) == Components(path) \in DOMAIN tree
Get(path) == Components(path)

\* add_weight that leaves the weight of the root as it is.
AddWeightTo_SkipsRoot(tree, comps, w, n) ==
  LET touched == {Prefix(comps, k) : k \in 0..n}
      old(m) == IF m \in DOMAIN tree THEN tree[m] ELSE DefaultNode
  IN [m \in DOMAIN tree \cup touched |->
        IF m \in touched /\ m # Root
        THEN [weight |-> AsUnsigned(AsSigned(old(m).weight) + w), out |-> old(m).out]
        ELSE old(m)]

\* Node::add_weight on the first n + 1 nodes of the path (all of them when
\* n = Len(comps)): each gets (weight as i64 + w) as u64, a missing one is created.
AddWeightTo(tree, comps, w, n) ==
  LET touched == {Prefix(comps, k) : k \in 0..n}
      old(m) == IF m \in DOMAIN tree THEN tree[m] ELSE DefaultNode
  IN [m \in DOMAIN tree \cup touched |->
        IF m \in touched
        THEN [weight |-> AsUnsigned(AsSigned(old(m).weight) + w), out |-> old(m).out]
        ELSE tree[m]]

\* The depths on the path at which `self.weight as i64 + weight` overflows.
OverflowDepths(tree, comps, w) ==
  {k \in 0..Len(comps) :
     /\ Prefix(comps, k) \in DOMAIN tree
     /\ SignedOverflow(AsSigned(tree[Prefix(comps, k)].weight) + w)}
Min(S) == CHOOSE x \in S : \A y \in S : x <= y

\* set_inout that marks the whole subtree of the node.
SetOut_Subtree(tree, node, out) ==
  [m \in DOMAIN tree |-> IF IsPrefix(node, m) THEN [tree[m] EXCEPT !.out = out] ELSE tree[m]]

\* Crush::set_inout on an existing node.
SetOut(tree, node, out) == [tree EXCEPT ![node].out = out]

\* ---------------------------------------------------------------- results
NoRet ==
  [op |-> "none", pgid |-> 0, num |-> 0, path |-> <<>>, status |-> "none",
   why |-> "", list |-> <<>>, str |-> <<>>, val |-> 0, flag |-> FALSE,
   again |-> FALSE]
Call(op, pgid, num, path) == [NoRet EXCEPT !.op = op, !.pgid = pgid, !.num = num, !.path = path]
Panic(call, why) == [call EXCEPT !.status = "panic", !.why = why]
RetList(call, list) == [call EXCEPT !.status = "ok", !.list = list]
RetStr(call, str) == [call EXCEPT !.status = "ok", !.str = str]
RetVal(call, val) == [call EXCEPT !.status = "ok", !.val = val]
RetFlag(call, flag) == [call EXCEPT !.status = "ok", !.flag = flag]

NoSel ==
  [pgid |-> 0, num |-> 0, start |-> <<>>, r |-> 0, failure_count |-> 0,
   local_failure |-> 0, node |-> <<>>, fullname |-> <<>>, targets |-> <<>>]
NoLoc == [op |-> "none", call |-> NoRet, paths |-> <<>>, i |-> 0, path |-> <<>>]

Init ==
  /\ root = (Root :> DefaultNode)
  /\ own = (Root :> 0)
  /\ nMut = 0
  /\ pc = "ready"
  /\ sel = NoSel
  /\ loc = NoLoc
  /\ ret = NoRet

\* --------------------------------------------------------------- mutators
\* Crush::add_weight(path, w).
AddWeight(path, w) ==
  LET comps == Components(path)
      ovf == OverflowDepths(root, comps, w)
      call == Call("add_weight", 0, 0, path)
  IN /\ pc = "ready"
     /\ nMut < MaxMut
     /\ nMut' = nMut + 1
     /\ UNCHANGED <<sel, loc>>
     /\ \E checked \in BOOLEAN :
          IF checked /\ ovf # {}
          THEN \* the addition panics at the first node that overflows
               /\ root' = (IF Min(ovf) = 0 THEN root
                           ELSE AddWeightTo(root, comps, w, Min(ovf) - 1))
               /\ own' = own
               /\ pc' = "panicked"
               /\ ret' = Panic(call, "overflow")
          ELSE /\ root' = AddWeightTo(root, comps, w, Len(comps))
               /\ own' = [m \in DOMAIN root' |->
                            (IF m \in DOMAIN own THEN own[m] ELSE 0)
                            + (IF m = comps THEN w ELSE 0)]
               /\ pc' = "ready"
               /\ ret' = NoRet

\* set_inout whose get_mut makes the missing nodes of the path.
SetInout_Creating(path, out) ==
  /\ pc = "ready"
  /\ nMut < MaxMut
  /\ nMut' = nMut + 1
  /\ UNCHANGED <<own, sel, loc>>
  /\ root' = SetOut(AddWeightTo(root, Components(path), 0, Len(Components(path))),
                    Get(path), out)
  /\ pc' = "ready"
  /\ ret' = NoRet

\* Crush::set_inout(path, out).
SetInout(path, out) ==
  LET call == Call("set_inout", 0, 0, path)
  IN /\ pc = "ready"
     /\ nMut < MaxMut
     /\ nMut' = nMut + 1
     /\ UNCHANGED <<own, sel, loc>>
     /\ IF Exists(root, path)
        THEN /\ root' = SetOut(root, Get(path), out)
             /\ pc' = "ready"
             /\ ret' = NoRet
        ELSE /\ root' = root
             /\ pc' = "panicked"
             /\ ret' = Panic(call, "missing path")

\* ---------------------------------------------------------- plain queries
\* Crush::get_weight(path).
GetWeight(path) ==
  LET call == Call("get_weight", 0, 0, path)
  IN /\ pc = "ready"
     /\ UNCHANGED <<root, own, nMut, sel, loc>>
     /\ IF Exists(root, path)
        THEN pc' = "done" /\ ret' = RetVal(call, root[Get(path)].weight)
        ELSE pc' = "panicked" /\ ret' = Panic(call, "missing path")

\* Crush::get_inout(path).
GetInout(path) ==
  LET call == Call("get_inout", 0, 0, path)
  IN /\ pc = "ready"
     /\ UNCHANGED <<root, own, nMut, sel, loc>>
     /\ IF Exists(root, path)
        THEN pc' = "done" /\ ret' = RetFlag(call, root[Get(path)].out)
        ELSE pc' = "panicked" /\ ret' = Panic(call, "missing path")

\* Crush::total_weight().
TotalWeight ==
  /\ pc = "ready"
  /\ UNCHANGED <<root, own, nMut, sel, loc>>
  /\ pc' = "done"
  /\ ret' = RetVal(Call("total_weight", 0, 0, <<>>), root[Root].weight)

\* Crush::get_osds(node): a child whose name contains "osd" counts one and is
\* not descended into; any other child contributes the count of its subtree.
RECURSIVE SumOver(_, _, _)
RECURSIVE get_osds(_, _)
SumOver(tree, node, names) ==
  IF names = {} THEN 0
  ELSE LET name == CHOOSE x \in names : TRUE
       IN (IF name \in OsdNames THEN 1 ELSE get_osds(tree, Child(node, name)))
          + SumOver(tree, node, names \ {name})
get_osds(tree, node) == SumOver(tree, node, ChildNames(tree, node))

\* n & (n - 1) for n > 0: n with its lowest set bit cleared.
RECURSIVE LowBit(_)
LowBit(n) == IF n % 2 = 1 THEN 1 ELSE 2 * LowBit(n \div 2)
ClearLowBit(n) == n - LowBit(n)

\* The loop of find_next_power_of_2, entered with n > 0.
RECURSIVE ClearToOneBit(_)
ClearToOneBit(n) == IF ClearLowBit(n) # 0 THEN ClearToOneBit(ClearLowBit(n)) ELSE n

\* find_next_power_of_2 without its `n -= 1`.
find_next_power_of_2_NoDecrement(n, checked) ==
  IF n = 0 THEN [ok |-> ~checked, val |-> 0]
  ELSE [ok |-> TRUE, val |-> (ClearToOneBit(n) * 2) % PgMod]

\* find_next_power_of_2(n): [ok, val]; ok is FALSE when a subtraction
\* underflows in a build that checks (`checked`).  Without the check n - 1
\* wraps: 0 - 1 is the all-ones word, and 0 & (0 - 1) is 0.
find_next_power_of_2(n, checked) ==
  LET n1 == (n - 1) % PgMod
  IN IF n = 0 /\ checked THEN [ok |-> FALSE, val |-> 0]
     ELSE IF n1 = 0
          THEN IF checked THEN [ok |-> FALSE, val |-> 0] ELSE [ok |-> TRUE, val |-> 0]
          ELSE [ok |-> TRUE, val |-> (ClearToOneBit(n1) * 2) % PgMod]

\* Crush::get_recommended_pgs(replicas).
GetRecommendedPgs(replicas) ==
  LET call == Call("get_recommended_pgs", 0, replicas, <<>>)
      prod == get_osds(root, Root) * 100
  IN /\ pc = "ready"
     /\ UNCHANGED <<root, own, nMut, sel, loc>>
     /\ \E checked \in BOOLEAN :
          IF prod >= PgMod /\ checked
          THEN pc' = "panicked" /\ ret' = Panic(call, "overflow")
          ELSE IF replicas = 0
          THEN pc' = "panicked" /\ ret' = Panic(call, "divide by zero")
          ELSE LET p == find_next_power_of_2((prod % PgMod) \div replicas, checked)
               IN IF p.ok
                  THEN pc' = "done" /\ ret' = RetVal(call, p.val)
                  ELSE pc' = "panicked" /\ ret' = Panic(call, "overflow")


\* find_next_power_of_2(n) called on its own, n being the argument in ret.
FindNextPowerOf2 ==
  /\ pc = "call"
  /\ ret.op = "find_next_power_of_2"
  /\ UNCHANGED <<root, own, nMut, sel, loc>>
  /\ \E checked \in BOOLEAN :
       LET p == find_next_power_of_2(ret.num, checked)
       IN IF p.ok
          THEN pc' = "done" /\ ret' = RetVal(ret, p.val)
          ELSE pc' = "panicked" /\ ret' = Panic(ret, "overflow")
\* ----------------------------------------------------------------- choose
\* The retry limit of select: `local_failure > 3` escalates to the root.
MaxLocalFailure == 3

\* The straw of one child: LN_TABLE[hash & 65535] / child.weight.
Straw(tree, node, name, key, index) ==
  LN_TABLE[Hash(name, key, index)] \div tree[Child(node, name)].weight

\* Node::choose(key, index) on a node whose children all have weight > 0:
\* min_by_key over the children in name order; the first minimum wins.
choose(tree, node, key, index) ==
  CHOOSE name \in ChildNames(tree, node) :
    \A other \in ChildNames(tree, node) :
      \/ Straw(tree, node, name, key, index) < Straw(tree, node, other, key, index)
      \/ /\ Straw(tree, node, name, key, index) = Straw(tree, node, other, key, index)
         /\ RankIn(NameOrder, name) <= RankIn(NameOrder, other)

\* ----------------------------------------------------------------- select
\* What a step leaves in pc, sel, loc and ret.
Outcome(p, s, l, r) == [pc |-> p, sel |-> s, loc |-> l, ret |-> r]
PanicOut(l, why) == Outcome("panicked", NoSel, NoLoc, Panic(l.call, why))
DoneOut(r, prev) ==
  Outcome("done", NoSel, NoLoc, [r EXCEPT !.again = (prev.status = "ok")])

Contains(v, x) == \E i \in 1..Len(v) : v[i] = x

\* fullname.strip_suffix(suffix).unwrap_or_default().
StripSuffix(s, suffix) ==
  IF Len(s) >= Len(suffix) /\ SubSeq(s, Len(s) - Len(suffix) + 1, Len(s)) = suffix
  THEN SubSeq(s, 1, Len(s) - Len(suffix))
  ELSE <<>>

Accepted_NoDuplicateTest(child, targets, fullname) == ~child.out

\* The test of select that ends the retry loop of one replica.
Accepted(child, targets, fullname) == ~child.out /\ ~Contains(targets, fullname)

\* The loop of locate_all appending the names without the separator.
Extend_NoSeparator(p, names) ==
  IF names = <<>> THEN p ELSE p \o names[1]

\* format!("{}/{}", p, s) for each s of a select result, in order.
RECURSIVE Extend(_, _)
Extend(p, names) ==
  IF names = <<>> THEN p ELSE Extend(p \o <<Slash>> \o names[1], Tail(names))

RECURSIVE SelectEnter(_, _, _, _, _)
RECURSIVE SelectReturn(_, _, _)
RECURSIVE LocateLoop(_, _)
RECURSIVE LocateAllLoop(_, _)

\* Crush::select up to its first draw: the start node is resolved, and the
\* locals of replica 0 are set.  l is the caller's frame, prev is kept in ret.
SelectEnter(pgid, num, start, l, prev) ==
  IF ~Exists(root, start) THEN PanicOut(l, "missing path")
  ELSE IF num = 0 THEN SelectReturn(<<>>, l, prev)
  ELSE Outcome("select",
               [pgid |-> pgid, num |-> num, start |-> start, r |-> 0,
                failure_count |-> 0, local_failure |-> 0, node |-> Get(start),
                fullname |-> <<>>, targets |-> <<>>],
               l, prev)

\* The caller of select goes on with the targets it returned.
SelectReturn(targets, l, prev) ==
  IF l.op = "select" THEN DoneOut(RetList(l.call, targets), prev)
  ELSE IF l.op = "locate"
  THEN \* select(pgid, 1, &path).into_iter().next().unwrap()
       LocateLoop([l EXCEPT !.path = IF l.path = <<>> THEN targets[1]
                                     ELSE l.path \o <<Slash>> \o targets[1]], prev)
  ELSE IF l.i = 0
  THEN \* locate_all: the top-level picks
       LocateAllLoop([l EXCEPT !.paths = targets, !.i = 1], prev)
  ELSE LocateAllLoop([l EXCEPT !.paths[l.i] = Extend(l.paths[l.i], targets)], prev)

\* Crush::locate: while !path.contains("osd").
LocateLoop(l, prev) ==
  IF ContainsOsd(l.path) THEN DoneOut(RetStr(l.call, l.path), prev)
  ELSE SelectEnter(l.call.pgid, 1, l.path, l, prev)

\* Crush::locate_all: for p in paths { while !p.contains("osd") }, then the sort.
LocateAllLoop(l, prev) ==
  IF l.i > Len(l.paths) THEN DoneOut(RetList(l.call, SortStrings(l.paths)), prev)
  ELSE IF ContainsOsd(l.paths[l.i]) THEN LocateAllLoop([l EXCEPT !.i = l.i + 1], prev)
  ELSE SelectEnter(l.call.pgid, 1, l.paths[l.i], l, prev)

\* One pass through the retry loop of select: a draw, then accept or reject.
DrawOutcome(s, l, prev, checked) ==
  LET sum == s.r + s.failure_count
      index == sum % IndexMod
      names == ChildNames(root, s.node)
      name == choose(root, s.node, s.pgid, index)
      drawn == (IF s.fullname # <<>> THEN s.fullname \o <<Slash>> ELSE s.fullname)
               \o NameStr(name)
      targets == Append(s.targets, drawn)
      chopped == StripSuffix(drawn, <<Slash>> \o NameStr(name))
      fc == s.failure_count + 1
      lf == s.local_failure + 1
  IN IF sum >= IndexMod /\ checked THEN PanicOut(l, "overflow")
     ELSE IF names = {} THEN PanicOut(l, "unwrap on None")
     ELSE IF \E n \in names : root[Child(s.node, n)].weight = 0
     THEN PanicOut(l, "divide by zero")
     ELSE IF Accepted(root[Child(s.node, name)], s.targets, drawn)
     THEN IF s.r + 1 = s.num THEN SelectReturn(targets, l, prev)
          ELSE Outcome("select",
                       [s EXCEPT !.r = s.r + 1, !.node = Get(s.start),
                                 !.local_failure = 0, !.fullname = <<>>,
                                 !.targets = targets],
                       l, prev)
     ELSE IF fc >= IndexMod /\ checked THEN PanicOut(l, "overflow")
     ELSE IF lf > MaxLocalFailure
     THEN Outcome("select",
                  [s EXCEPT !.failure_count = fc % IndexMod, !.node = Root,
                            !.local_failure = 0, !.fullname = <<>>],
                  l, prev)
     ELSE Outcome("select",
                  [s EXCEPT !.failure_count = fc % IndexMod, !.local_failure = lf,
                            !.fullname = chopped],
                  l, prev)

Apply(o) == pc' = o.pc /\ sel' = o.sel /\ loc' = o.loc /\ ret' = o.ret

Frame(op, pgid, num, path) ==
  [NoLoc EXCEPT !.op = op, !.call = Call(op, pgid, num, path)]

\* The entry of one of the three selection queries.
Enter(op, pgid, num, path, prev) ==
  IF op = "select" THEN SelectEnter(pgid, num, path, Frame(op, pgid, num, path), prev)
  ELSE IF op = "locate_all"
  THEN SelectEnter(pgid, num, <<>>, Frame(op, pgid, num, path), prev)
  ELSE LocateLoop(Frame(op, pgid, num, path), prev)

\* Crush::select(pgid, num, start_path).
Select(pgid, num, start) ==
  /\ pc = "ready"
  /\ Apply(Enter("select", pgid, num, start, NoRet))
  /\ UNCHANGED <<root, own, nMut>>

\* Crush::locate_all(pgid, replicas).
LocateAll(pgid, replicas) ==
  /\ pc = "ready"
  /\ Apply(Enter("locate_all", pgid, replicas, <<>>, NoRet))
  /\ UNCHANGED <<root, own, nMut>>

\* Crush::locate(pgid).
Locate(pgid) ==
  /\ pc = "ready"
  /\ Apply(Enter("locate", pgid, 1, <<>>, NoRet))
  /\ UNCHANGED <<root, own, nMut>>

\* The next pass through the retry loop of the running select.
Draw ==
  /\ pc = "select"
  /\ \E checked \in BOOLEAN : Apply(DrawOutcome(sel, loc, ret, checked))
  /\ UNCHANGED <<root, own, nMut>>

SelectionOps == {"select", "locate_all", "locate"}

\* The caller makes the selection query that has just returned once more.
Repeat ==
  /\ pc = "done"
  /\ ret.op \in SelectionOps
  /\ Apply(Enter(ret.op, ret.pgid, ret.num, ret.path, ret))
  /\ UNCHANGED <<root, own, nMut>>

\* The caller takes the value a query returned.
Resume ==
  /\ pc = "done"
  /\ pc' = "ready"
  /\ ret' = NoRet
  /\ UNCHANGED <<root, own, nMut, sel, loc>>


\* After locate(pgid) has returned the caller runs locate_all(pgid, 1) on the
\* same map, and after locate_all(pgid, 1) it runs locate(pgid).
Counterpart ==
  /\ pc = "done"
  /\ \/ ret.op = "locate" /\ Apply(Enter("locate_all", ret.pgid, 1, <<>>, ret))
     \/ /\ ret.op = "locate_all" /\ ret.num = 1
        /\ Apply(Enter("locate", ret.pgid, 1, <<>>, ret))
  /\ UNCHANGED <<root, own, nMut>>
\* ----------------------------------------------------------------- claims
\* The nodes on a returned path, the root left out.
NodesOn(path) == {Prefix(Components(path), k) : k \in 1..Len(Components(path))}
\* The query op has returned, and its caller holds the value.
Returned(op) == pc = "done" /\ ret.op = op /\ ret.status = "ok"
Distinct(v) == \A i, j \in 1..Len(v) : i # j => v[i] # v[j]

RECURSIVE SumOf(_, _)
SumOf(f, S) ==
  IF S = {} THEN 0 ELSE LET x == CHOOSE y \in S : TRUE IN f[x] + SumOf(f, S \ {x})
Children(tree, node) == {Child(node, name) : name \in ChildNames(tree, node)}
\* The sum of the weights of the children of a node.
ChildWeightSum(tree, node) ==
  SumOf([m \in DOMAIN tree |-> tree[m].weight], Children(tree, node))
\* The sum of the deltas of the add_weight calls whose path has p as a prefix.
DeltaSum(p) == SumOf(own, {q \in DOMAIN own : IsPrefix(p, q)})

\* C1: no path returned by locate_all names a node whose out flag is true or
\* that lies beneath a node whose out flag is true (the root, whose own flag
\* select never reads, is not counted among these nodes).
C1_NoOutNodeOnPath ==
  Returned("locate_all") =>
    \A i \in 1..Len(ret.list) :
      \A n \in NodesOn(ret.list[i]) : n \in DOMAIN root => ~root[n].out

\* C2: every call of select on an existing start_path completes after
\* finitely many draws: it returns a list or ends in a fatal error.
C2_SelectCompletes ==
  (pc = "select" /\ loc.op = "select") ~> (pc \in {"done", "panicked"})

\* C3: select(pgid, R, start_path) on a start node with at least R children
\* returns exactly R names, and these are pairwise distinct.
C3_SelectReturnsDistinct ==
  (/\ pc = "select"
   /\ loc.op = "select"
   /\ Cardinality(ChildNames(root, Get(loc.call.path))) >= loc.call.num)
  ~> (/\ Returned("select")
      /\ Len(ret.list) = ret.num
      /\ Distinct(ret.list))

\* C4: on a cluster with at least R top-level subtrees, the R paths returned
\* by locate_all(pgid, R) have pairwise distinct first components.
C4_DistinctTopLevel ==
  (Returned("locate_all") /\ Cardinality(ChildNames(root, Root)) >= ret.num) =>
    /\ Len(ret.list) = ret.num
    /\ Distinct([i \in 1..Len(ret.list) |-> SplitName(ret.list[i])])
\* locate_all has returned two paths that descend below the top level.
C4_Witness ==
  /\ Returned("locate_all")
  /\ ret.num = 2
  /\ Len(ret.list) = 2
  /\ \A i \in 1..2 : Len(Components(ret.list[i])) = 2

\* C5 as claimed: after any add_weight and set_inout calls, every node that has
\* a child has weight equal to the sum of its children's weights.
C5_WeightIsChildSum ==
  pc # "panicked" =>
    \A n \in DOMAIN root :
      ChildNames(root, n) # {} => root[n].weight = ChildWeightSum(root, n)
\* C5 as amended: every node that has a child has weight equal, modulo the
\* word size, to the sum of its children's weights plus the sum of the deltas
\* of the add_weight calls addressed to the node itself.
C5_WeightIsChildSumPlusOwn ==
  pc # "panicked" =>
    \A n \in DOMAIN root :
      ChildNames(root, n) # {} =>
        root[n].weight = (ChildWeightSum(root, n) + own[n]) % WeightMod
\* A node with a child carries weight of its own beside that of the child.
C5_Witness ==
  /\ pc = "ready"
  /\ \E n \in DOMAIN root :
       /\ ChildNames(root, n) # {}
       /\ own[n] # 0
       /\ ChildWeightSum(root, n) # 0
       /\ root[n].weight # ChildWeightSum(root, n)

\* The effect of a completed add_weight(path, w) on the tree.
AddWeightEffect(path, w) ==
  LET onPath == {Prefix(Components(path), k) : k \in 0..Len(Components(path))}
      old(m) == IF m \in DOMAIN root THEN root[m] ELSE DefaultNode
  IN /\ DOMAIN root' = DOMAIN root \cup onPath
     /\ \A m \in onPath :
          /\ root'[m].weight = (old(m).weight + w) % WeightMod
          /\ root'[m].out = old(m).out
     /\ \A m \in DOMAIN root \ onPath : root'[m] = root[m]

\* C6 as claimed: get_weight(p) is the sum of the deltas of the add_weight
\* calls whose path has p as a prefix, and total_weight() the sum of all deltas.
C6_WeightIsDeltaSum ==
  pc # "panicked" => \A p \in DOMAIN root : root[p].weight = DeltaSum(p)
\* C6 as amended: add_weight(path, w), when it completes, creates the missing
\* nodes of the path, changes the weight of every node on the path by w modulo
\* the word size and nothing else; after it every weight is the sum of the
\* deltas of the calls made through the node, modulo the word size.
C6_AddWeightFrame ==
  [][\A path \in PathInputs, w \in Deltas :
       (AddWeight(path, w) /\ pc' = "ready") =>
         /\ AddWeightEffect(path, w)
         /\ \A p \in DOMAIN root' : root'[p].weight = DeltaSum(p)' % WeightMod]_vars
\* A node below the root whose deltas sum to less than zero.
C6_Witness ==
  /\ pc = "ready"
  /\ \E p \in DOMAIN root :
       Len(p) = 2 /\ DeltaSum(p) < 0 /\ root[p].weight = DeltaSum(p) + WeightMod

\* C7: set_inout(path, out) on an existing path changes the out flag of the
\* addressed node and nothing else: no weight, no other flag, no node.
C7_SetInoutFrame ==
  [][\A path \in PathInputs, out \in BOOLEAN :
       (SetInout(path, out) /\ Exists(root, path)) =>
         /\ DOMAIN root' = DOMAIN root
         /\ root'[Get(path)] = [weight |-> root[Get(path)].weight, out |-> out]
         /\ \A m \in DOMAIN root \ {Get(path)} : root'[m] = root[m]]_vars
\* A node marked out keeps its weight above a child that is not marked.
C7_Witness ==
  \E n \in DOMAIN root :
    /\ n # Root
    /\ root[n].out
    /\ root[n].weight > 0
    /\ root[Root].weight >= root[n].weight
    /\ \E name \in ChildNames(root, n) : ~root[Child(n, name)].out

RECURSIVE PowerOfTwoFrom(_, _)
PowerOfTwoFrom(p, n) == IF p >= n THEN p ELSE PowerOfTwoFrom(2 * p, n)
\* The leaves whose name contains "osd".
OsdLeaves ==
  {n \in DOMAIN root : n # Root /\ ChildNames(root, n) = {} /\ n[Len(n)] \in OsdNames}

\* C9: for replicas >= 1, get_recommended_pgs(replicas) returns the least
\* power of two >= floor(osd_count * 100 / replicas).
C9_RecommendedPgs ==
  (ret.op = "get_recommended_pgs" /\ ret.num >= 1) =>
    /\ ret.status = "ok"
    /\ ret.val = PowerOfTwoFrom(1, (Cardinality(OsdLeaves) * 100) \div ret.num)


\* C12: every name in the list returned by select(pgid, num, start_path) is
\* the name of a direct child of the node at start_path.
C12_NamesAreChildren ==
  Returned("select") =>
    \A i \in 1..Len(ret.list) :
      /\ Len(ret.list[i]) = 1
      /\ ret.list[i][1] \in ChildNames(root, Get(ret.path))

\* The path resolves to an existing leaf whose name contains "osd".
IsOsdLeaf(path) ==
  /\ Exists(root, path)
  /\ Get(path) # Root
  /\ ChildNames(root, Get(path)) = {}
  /\ Get(path)[Len(Get(path))] \in OsdNames

\* C13: every path returned by locate_all or locate resolves to a node that
\* exists in the tree and is a leaf whose name contains "osd".
C13_ReturnsOsdLeaves ==
  /\ Returned("locate_all") => \A i \in 1..Len(ret.list) : IsOsdLeaf(ret.list[i])
  /\ Returned("locate") => IsOsdLeaf(ret.str)

\* The children that the claimed choose considers: weight > 0 and not out.
Eligible(tree, node) ==
  {name \in ChildNames(tree, node) :
     tree[Child(node, name)].weight > 0 /\ ~tree[Child(node, name)].out}

\* C14: a draw of choose on a node that has a child with weight > 0 and
\* out = false does not fail on a zero-weight child, and returns one of the
\* children with weight > 0 and out = false.
C14_ChooseSkips ==
  [][(pc = "select" /\ Eligible(root, sel.node) # {}) =>
       /\ ~(pc' = "panicked" /\ ret'.why = "divide by zero")
       /\ (\A name \in ChildNames(root, sel.node) : root[Child(sel.node, name)].weight # 0) =>
            choose(root, sel.node, sel.pgid, (sel.r + sel.failure_count) % IndexMod)
              \in Eligible(root, sel.node)]_vars

\* A step of the retry loop that stays inside the running select call.
SameCall == pc = "select" /\ pc' = "select" /\ loc' = loc
\* The index the next draw of the running select hands to choose.
DrawIndex(s) == (s.r + s.failure_count) % IndexMod

\* C15: within one select call the draws of a replica are made at the start
\* node until its 4th consecutive rejection, which moves the draws to the root
\* with the partial name cleared and local_failure reset; failure_count is never
\* reset or decreased; the next replica starts at the start node with
\* local_failure = 0.
C15_Escalation ==
  [][SameCall =>
       /\ sel.node \in {Get(sel.start), Root}
       /\ sel'.failure_count >= sel.failure_count
       /\ IF sel'.r = sel.r + 1
          THEN /\ sel'.node = Get(sel.start)
               /\ sel'.local_failure = 0
               /\ sel'.failure_count = sel.failure_count
          ELSE /\ sel'.r = sel.r
               /\ sel'.failure_count # sel.failure_count
               /\ IF sel.local_failure = MaxLocalFailure
                  THEN sel'.node = Root /\ sel'.fullname = <<>> /\ sel'.local_failure = 0
                  ELSE sel'.node = sel.node /\ sel'.local_failure = sel.local_failure + 1]_vars

\* C16: within one select call the index handed to choose grows by exactly 1
\* from each draw to the next, so no two draws of the call use the same index.
C16_IndexAdvances ==
  [][SameCall => DrawIndex(sel') = DrawIndex(sel) + 1]_vars

\* find_next_power_of_2(n) has been called on its own with n >= 1.
PowerCalled ==
  pc \in {"done", "panicked"} /\ ret.op = "find_next_power_of_2" /\ ret.num >= 1

\* C17 as claimed: for n >= 1, find_next_power_of_2(n) is the bit left from n
\* by clearing its lowest set bit until one bit remains, shifted left by one.
C17_TwiceHighestBit ==
  PowerCalled => ret.status = "ok" /\ ret.val = 2 * ClearToOneBit(ret.num)

\* C17: for n >= 2, find_next_power_of_2(n) is the least power of two >= n in
\* the width of the word, so a power of two is returned as it is; for n = 1
\* the call panics or returns 0.
C17_LeastPowerOfTwo ==
  PowerCalled =>
    IF ret.num = 1 THEN ret.status = "panic" \/ ret.val = 0
    ELSE ret.status = "ok" /\ ret.val = PowerOfTwoFrom(1, ret.num) % PgMod
\* A power of two has been returned as it is.
C17_Witness ==
  pc = "done" /\ ret.op = "find_next_power_of_2" /\ ret.num = 4 /\ ret.val = 4

\* The paths among the inputs that are not in the tree.
MissingPaths(inputs) == {p \in inputs : ~Exists(root, p)}

\* The part of C18 about the calls that resolve a path with get / get_mut:
\* set_inout, get_inout, get_weight and select on a path that is not in the
\* tree end in a fatal error and leave the tree as it was.
MissingPathIsFatal ==
  /\ nMut' # nMut =>
       \A path \in MissingPaths(PathInputs), out \in BOOLEAN :
         SetInout(path, out) => pc' = "panicked" /\ root' = root
  /\ ret'.op = "get_inout" =>
       \A path \in MissingPaths(PathInputs) :
         GetInout(path) => pc' = "panicked" /\ root' = root
  /\ ret'.op = "get_weight" =>
       \A path \in MissingPaths(PathInputs) :
         GetWeight(path) => pc' = "panicked" /\ root' = root
  /\ (ret'.op = "select" \/ loc'.op = "select") =>
       \A start \in MissingPaths(StartInputs), pgid \in Pgids, num \in 0..MaxNum :
         Select(pgid, num, start) => pc' = "panicked" /\ root' = root

ChooseReturns(tree, node) ==
  /\ ChildNames(tree, node) # {}
  /\ \A name \in ChildNames(tree, node) : tree[Child(node, name)].weight # 0

\* The step has added the child `name` to the node or increased its weight.
ChildGrown(node, name) ==
  /\ node \in DOMAIN root
  /\ Child(node, name) \in DOMAIN root'
  /\ \/ Child(node, name) \notin DOMAIN root
     \/ root'[Child(node, name)].weight > root[Child(node, name)].weight

\* C19: when one child is added to a node, or the weight of one child of the
\* node is increased, and the other children are as before, every draw
\* choose(key, index) on the node returns the child it returned before or the
\* added / re-weighted child.
C19_StrawStable ==
  [][(pc = "ready" /\ pc' = "ready" /\ root' # root) =>
       \A node \in DOMAIN root, name \in Names :
         (/\ ChildGrown(node, name)
          /\ \A other \in ChildNames(root, node) \ {name} :
               root'[Child(node, other)] = root[Child(node, other)]
          /\ ChooseReturns(root, node)) =>
           /\ ChooseReturns(root', node)
           /\ \A key \in Pgids, index \in 0..(IndexMod - 1) :
                choose(root', node, key, index) \in {choose(root, node, key, index), name}]_vars

\* The running query is the counterpart of the query whose value is in ret:
\* locate_all(pgid, 1) after locate(pgid), or locate(pgid) after locate_all(pgid, 1).
CrossRun == pc = "select" /\ ret.status = "ok" /\ ret.op # loc.op
\* The values of a locate and a locate_all(pgid, 1) agree.
Agree(a, b) ==
  IF a.op = "locate" THEN b.op = "locate_all" /\ b.list = <<a.str>>
  ELSE b.op = "locate" /\ a.list = <<b.str>>

Next ==
  \/ \E path \in PathInputs, w \in Deltas : AddWeight(path, w)
  \/ \E path \in PathInputs, out \in BOOLEAN : SetInout(path, out)
  \/ \E path \in PathInputs : GetWeight(path)
  \/ \E path \in PathInputs : GetInout(path)
  \/ TotalWeight
  \/ \E replicas \in ReplicaInputs : GetRecommendedPgs(replicas)
  \/ \E pgid \in Pgids, num \in 0..MaxNum, start \in StartInputs : Select(pgid, num, start)
  \/ \E pgid \in Pgids, replicas \in 0..MaxNum : LocateAll(pgid, replicas)
  \/ \E pgid \in Pgids : Locate(pgid)
  \/ Draw
  \/ Repeat
  \/ Resume

Spec == Init /\ [][Next]_vars

\* The engine under select alone, on maps of unit-weight top-level nodes.  A
\* running select is never suspended: its loop goes on to the next draw.
TopLevelInputs == {<<"host.1">>, <<"host.2">>, <<"osd.1">>}
SelectNext ==
  \/ \E path \in TopLevelInputs : AddWeight(path, 2)
  \/ \E path \in TopLevelInputs : SetInout(path, TRUE)
  \/ \E pgid \in Pgids, num \in 0..MaxNum : Select(pgid, num, <<>>)
  \/ Draw
  \/ Resume

FairSpec == Init /\ [][SelectNext]_vars /\ WF_vars(Draw)

\* The engine under locate and locate_all(pgid, 1), on maps of one weight that
\* hold a device at the top and a host with a device or a host below it.  A
\* running query is never suspended: its loop goes on to the next draw.
LocateInputs == {<<"osd.1">>, <<"host.1", "/", "osd.1">>, <<"host.1", "/", "host.2">>}
LocateNext ==
  \/ \E path \in LocateInputs : AddWeight(path, 2)
  \/ \E path \in LocateInputs \ {<<"osd.1">>} : SetInout(path, TRUE)
  \/ \E pgid \in Pgids : Locate(pgid)
  \/ \E pgid \in Pgids : LocateAll(pgid, 1)
  \/ Draw
  \/ Counterpart
  \/ Resume

LocateSpec == Init /\ [][LocateNext]_vars /\ WF_vars(Draw)

\* find_next_power_of_2 on every u32 argument.
PowInit ==
  /\ root = (Root :> DefaultNode)
  /\ own = (Root :> 0)
  /\ nMut = 0
  /\ pc = "call"
  /\ sel = NoSel
  /\ loc = NoLoc
  /\ \E n \in 0..(PgMod - 1) : ret = Call("find_next_power_of_2", 0, n, <<>>)
PowNext == FindNextPowerOf2

PowSpec == PowInit /\ [][PowNext]_vars

\* The engine under add_weight and the draws of select(pgid, 1, ""), the
\* deltas including 0: a node may be added with weight 0.
ChooseInputs == {<<"host.1">>, <<"host.2">>, <<"osd.1">>, <<"host.1", "/", "osd.1">>}
ChooseDeltas == Deltas \cup {0}
ChooseNext ==
  \/ \E path \in ChooseInputs, w \in ChooseDeltas : AddWeight(path, w)
  \/ \E pgid \in Pgids : Select(pgid, 1, <<>>)
  \/ Draw
  \/ Resume

ChooseSpec == Init /\ [][ChooseNext]_vars
====
